---- MODULE Spec2Model ----
(***************************************************************************)
(* GATEKEEPER (src/index.tsx): the proximity-triggered state machine of    *)
(* the App component, its gyroscope stability metric, the playback         *)
(* scheduler of the live session and the 16-bit PCM audio codec.           *)
(*                                                                         *)
(* React state lives in the variables started, testActive, status,         *)
(* homeLocation, currentDistance and stabilityScore2.  A callback that     *)
(* was created during a render reads the values of THAT render: the        *)
(* variable rendered holds the values of the last committed render, which  *)
(* are the values the subscribed geolocation callback closes over.         *)
(***************************************************************************)
EXTENDS Integers, Sequences, FiniteSets, TLC

(* ------------------------------ bounds --------------------------------- *)
\* location fixes delivered in one run (one page load)
MaxFixes == 3

(* --------------------------- program constants ------------------------- *)
\* if (dist > 15 && ...)
ThresholdFt == 15

\* Positions a fix may report: points of one meridian, given as feet of arc
\* from a reference point (109 ft is the spec's 0.0003 degrees of latitude).
Positions == {0, 15, 109}

NoHome == -1
Modes == <<"STANDBY", "SECURE", "VIOLATION", "TESTING">>

VARIABLES
    \* --- App state (useState) ---
    started, testActive, status, homeLocation, currentDistance,
    \* values of the last committed render (closure of the subscribed watch)
    rendered,
    \* --- refs ---
    aiClient,          \* aiClient.current # null
    streamRef,         \* "null" | "held"
    sessions,          \* one record per live.connect issued by startTest
    audioContextRef,   \* index into sessions of the 16 kHz context, 0 = null
    sessionRef,        \* index into sessions, 0 = null
    frameIntervalRef,  \* index of the session whose onopen set it, 0 = null
    \* --- control ---
    sysPc,             \* position of the async startSystem
    isIOS,             \* DeviceOrientationEvent.requestPermission is a function
    reloading,         \* window.location.reload() called, page not yet replaced
    \* --- history ---
    fixCount, startTestCalls, violationCount, farSeen, alertCount,
    lastFix,           \* position of the last fix delivered, NoHome = none
    lastOut,           \* the last output of a callback: a console.error or
                       \* a sendRealtimeInput, and the session it belongs to
    \* --- gyroscope (handleOrientation) ---
    gyroData,          \* last complete orientation sample
    stabilityScore2,   \* stabilityScore in halves (200 is 100)
    \* --- playback of the session's audio (onmessage) ---
    outNow,            \* outCtx.currentTime, in ticks of 0.5 s
    nextStartTimeRef,  \* nextStartTimeRef.current, in ticks
    msgCount,          \* inbound messages received
    decoding,          \* onmessage calls parked at await decodeAudioData
    scheduled,         \* source.start(start) calls, in call order
    \* --- audio codec (createBlob, decode, decodeAudioData) ---
    pcmIn,             \* Float32Array frame: numerators over SampleDen
    wire,              \* base64 payload: sextets and padding
    pcmOut,            \* decoded channel data: numerators over 32768
    codecPc

appVars == <<started, testActive, status, homeLocation, currentDistance,
             rendered, aiClient, streamRef, sessions, audioContextRef,
             sessionRef, frameIntervalRef, sysPc, isIOS, reloading,
             fixCount, startTestCalls, violationCount, farSeen, alertCount,
             lastFix, lastOut>>

gyroVars == <<gyroData, stabilityScore2>>
audioVars == <<outNow, nextStartTimeRef, msgCount, decoding, scheduled>>
codecVars == <<pcmIn, wire, pcmOut, codecPc>>

vars == <<appVars, gyroVars, audioVars, codecVars>>

Abs(x) == IF x < 0 THEN -x ELSE x
Max(a, b) == IF a >= b THEN a ELSE b

\* Haversine distance in feet.  For two points of one meridian (dLon = 0)
\* a = sin^2(dLat/2), c = |dLat| and d = R * |dLat|: the arc between them.
getDistanceFromLatLonInFeet(lat1, lat2) == Abs(lat2 - lat1)

ExceedsThreshold_inclusive(dist) == dist >= ThresholdFt

\* dist > 15
ExceedsThreshold(dist) == dist > ThresholdFt

\* the values a render reads
Snapshot(st, hl, s, ta) ==
    [started |-> st, homeLocation |-> hl, status |-> s, testActive |-> ta]

IsFirstFix_notSecure(w) == w.status # "SECURE"

\* if (!homeLocation)
IsFirstFix(w) == w.homeLocation = NoHome

\* dist > 15 && status === "SECURE" && !testActive
Triggers(w, dist) ==
    ExceedsThreshold(dist) /\ w.status = "SECURE" /\ ~w.testActive

\* {status === 'VIOLATION' && !testActive && ( ... SUBMIT TO TEST ... )}
SubmitVisible ==
    rendered.started /\ rendered.status = "VIOLATION" /\ ~rendered.testActive

NewSession_eager ==
    [conn |-> "pending", ctx |-> "running", outCtx |-> "running",
     tap |-> TRUE, timer |-> TRUE]

\* what one startTest creates: the connection, the 16 kHz context ctx, the
\* 24 kHz context outCtx, the audio tap and the frame timer (both idle until
\* onopen)
NewSession ==
    [conn |-> "pending", ctx |-> "running", outCtx |-> "running",
     tap |-> FALSE, timer |-> FALSE]

Out(kind, session) == [kind |-> kind, session |-> session]
NoOut == Out("none", 0)

WatchActive_always == TRUE

\* if (!started) return: the watch exists once a render has seen started
WatchActive == rendered.started

CanConnect_streamOnly == streamRef = "held"

\* if (!aiClient.current || !streamRef.current) return
CanConnect == aiClient /\ streamRef = "held"

AppInit ==
    /\ started = FALSE
    /\ testActive = FALSE
    /\ status = "STANDBY"
    /\ homeLocation = NoHome
    /\ currentDistance = 0
    /\ rendered = Snapshot(FALSE, NoHome, "STANDBY", FALSE)
    /\ aiClient \in BOOLEAN
    /\ streamRef = "null"
    /\ sessions = <<>>
    /\ audioContextRef = 0
    /\ sessionRef = 0
    /\ frameIntervalRef = 0
    /\ sysPc = "idle"
    /\ isIOS \in BOOLEAN
    /\ reloading = FALSE
    /\ fixCount = 0
    /\ startTestCalls = 0
    /\ violationCount = 0
    /\ farSeen = FALSE
    /\ alertCount = 0
    /\ lastFix = NoHome
    /\ lastOut = NoOut

StartTest_noStatus ==
    /\ testActive' = TRUE
    /\ status' = "VIOLATION"
    /\ startTestCalls' = startTestCalls + 1
    /\ IF CanConnect
       THEN /\ sessions' = Append(sessions, NewSession)
            /\ audioContextRef' = Len(sessions) + 1
            /\ sessionRef' = Len(sessions) + 1
       ELSE UNCHANGED <<sessions, audioContextRef, sessionRef>>

StartTest_notCalled ==
    /\ status' = "VIOLATION"
    /\ UNCHANGED <<testActive, startTestCalls, sessions, audioContextRef,
                   sessionRef>>

\* startTest: the state it sets and, with a client and a stream, the connect
StartTest ==
    /\ testActive' = TRUE
    /\ status' = "TESTING"
    /\ startTestCalls' = startTestCalls + 1
    /\ IF CanConnect
       THEN /\ sessions' = Append(sessions, NewSession)
            /\ audioContextRef' = Len(sessions) + 1
            /\ sessionRef' = Len(sessions) + 1
       ELSE UNCHANGED <<sessions, audioContextRef, sessionRef>>

\* React commits a render of the current state; the geolocation effect
\* re-subscribes with callbacks that close over the rendered values.
Render ==
    /\ UNCHANGED <<gyroVars, audioVars, codecVars>>
    /\ UNCHANGED <<lastFix, lastOut>>
    /\ rendered # Snapshot(started, homeLocation, status, testActive)
    /\ rendered' = Snapshot(started, homeLocation, status, testActive)
    /\ UNCHANGED <<started, testActive, status, homeLocation, currentDistance,
                   aiClient, streamRef, sessions, audioContextRef, sessionRef,
                   frameIntervalRef, sysPc, isIOS, reloading, fixCount,
                   startTestCalls, violationCount, farSeen, alertCount>>

\* watchPosition success callback, with the closure of the last render
Fix(p) ==
    /\ UNCHANGED <<gyroVars, audioVars, codecVars>>
    /\ WatchActive
    /\ fixCount < MaxFixes
    /\ fixCount' = fixCount + 1
    /\ lastFix' = p
    /\ lastOut' = lastOut
    /\ farSeen' = (farSeen \/ (homeLocation # NoHome /\
                     getDistanceFromLatLonInFeet(homeLocation, p) > ThresholdFt))
    /\ IF IsFirstFix(rendered)
       THEN /\ homeLocation' = p
            /\ status' = "SECURE"
            /\ UNCHANGED <<currentDistance, testActive, startTestCalls,
                           violationCount, sessions, audioContextRef, sessionRef>>
       ELSE LET dist == getDistanceFromLatLonInFeet(rendered.homeLocation, p) IN
            /\ currentDistance' = dist
            /\ homeLocation' = homeLocation
            /\ IF Triggers(rendered, dist)
               THEN /\ violationCount' = violationCount + 1
                    /\ StartTest
               ELSE UNCHANGED <<status, testActive, startTestCalls,
                                violationCount, sessions, audioContextRef,
                                sessionRef>>
    /\ UNCHANGED <<started, rendered, aiClient, streamRef, frameIntervalRef,
                   sysPc, isIOS, reloading, alertCount>>

\* Initialize System button: setStarted(true), then await getUserMedia
StartSystem ==
    /\ UNCHANGED <<gyroVars, audioVars, codecVars>>
    /\ UNCHANGED <<lastFix, lastOut>>
    /\ ~rendered.started
    /\ sysPc = "idle"
    /\ started' = TRUE
    /\ rendered' = Snapshot(TRUE, homeLocation, status, testActive)
    /\ sysPc' = "awaitMedia"
    /\ UNCHANGED <<testActive, status, homeLocation, currentDistance, aiClient,
                   streamRef, sessions, audioContextRef, sessionRef,
                   frameIntervalRef, isIOS, reloading, fixCount,
                   startTestCalls, violationCount, farSeen, alertCount>>

\* getUserMedia resolves: streamRef.current = stream; await video.play()
MediaGranted ==
    /\ UNCHANGED <<gyroVars, audioVars, codecVars>>
    /\ UNCHANGED <<lastFix, lastOut>>
    /\ sysPc = "awaitMedia"
    /\ streamRef' = "held"
    /\ sysPc' = "awaitPlay"
    /\ UNCHANGED <<started, testActive, status, homeLocation, currentDistance,
                   rendered, aiClient, sessions, audioContextRef, sessionRef,
                   frameIntervalRef, isIOS, reloading, fixCount,
                   startTestCalls, violationCount, farSeen, alertCount>>

\* video.play() resolves; on iOS await requestPermission()
PlayResolved ==
    /\ UNCHANGED <<gyroVars, audioVars, codecVars>>
    /\ UNCHANGED <<lastFix, lastOut>>
    /\ sysPc = "awaitPlay"
    /\ sysPc' = IF isIOS THEN "awaitPerm" ELSE "done"
    /\ UNCHANGED <<started, testActive, status, homeLocation, currentDistance,
                   rendered, aiClient, streamRef, sessions, audioContextRef,
                   sessionRef, frameIntervalRef, isIOS, reloading, fixCount,
                   startTestCalls, violationCount, farSeen, alertCount>>

\* requestPermission() resolves (with "granted" or "denied": neither throws)
PermResolved ==
    /\ UNCHANGED <<gyroVars, audioVars, codecVars>>
    /\ UNCHANGED <<lastFix, lastOut>>
    /\ sysPc = "awaitPerm"
    /\ sysPc' = "done"
    /\ UNCHANGED <<started, testActive, status, homeLocation, currentDistance,
                   rendered, aiClient, streamRef, sessions, audioContextRef,
                   sessionRef, frameIntervalRef, isIOS, reloading, fixCount,
                   startTestCalls, violationCount, farSeen, alertCount>>

\* an awaited acquisition rejects: catch, console.error, alert
HardwareDenied ==
    /\ UNCHANGED <<gyroVars, audioVars, codecVars>>
    /\ UNCHANGED <<lastFix, lastOut>>
    /\ sysPc \in {"awaitMedia", "awaitPlay", "awaitPerm"}
    /\ sysPc' = "failed"
    /\ alertCount' = alertCount + 1
    /\ UNCHANGED <<started, testActive, status, homeLocation, currentDistance,
                   rendered, aiClient, streamRef, sessions, audioContextRef,
                   sessionRef, frameIntervalRef, isIOS, reloading, fixCount,
                   startTestCalls, violationCount, farSeen>>

\* the session's onopen: audio tap connected, frame grabber timer started
OnOpen(i) ==
    /\ UNCHANGED <<gyroVars, audioVars, codecVars>>
    /\ UNCHANGED <<lastFix, lastOut>>
    /\ i \in 1..Len(sessions)
    /\ sessions[i].conn = "pending"
    /\ sessions' = [sessions EXCEPT ![i].conn = "open", ![i].tap = TRUE,
                                    ![i].timer = TRUE]
    /\ frameIntervalRef' = i
    /\ UNCHANGED <<started, testActive, status, homeLocation, currentDistance,
                   rendered, aiClient, streamRef, audioContextRef, sessionRef,
                   sysPc, isIOS, reloading, fixCount, startTestCalls,
                   violationCount, farSeen, alertCount>>

OnClose_reconnect(i) ==
    /\ UNCHANGED <<gyroVars, audioVars, codecVars>>
    /\ UNCHANGED <<lastFix, lastOut>>
    /\ i \in 1..Len(sessions)
    /\ sessions[i].conn \in {"pending", "open"}
    /\ Len(sessions) < MaxFixes
    /\ sessions' = Append([sessions EXCEPT ![i].conn = "closed"], NewSession)
    /\ sessionRef' = Len(sessions) + 1
    /\ UNCHANGED <<started, testActive, status, homeLocation, currentDistance,
                   rendered, aiClient, streamRef, audioContextRef,
                   frameIntervalRef, sysPc, isIOS, reloading, fixCount,
                   startTestCalls, violationCount, farSeen, alertCount>>

\* the session's onclose: console.log only
OnClose(i) ==
    /\ UNCHANGED <<gyroVars, audioVars, codecVars>>
    /\ UNCHANGED <<lastFix, lastOut>>
    /\ i \in 1..Len(sessions)
    /\ sessions[i].conn \in {"pending", "open"}
    /\ sessions' = [sessions EXCEPT ![i].conn = "closed"]
    /\ UNCHANGED <<started, testActive, status, homeLocation, currentDistance,
                   rendered, aiClient, streamRef, audioContextRef, sessionRef,
                   frameIntervalRef, sysPc, isIOS, reloading, fixCount,
                   startTestCalls, violationCount, farSeen, alertCount>>

FixError_clearsWatch ==
    /\ UNCHANGED <<gyroVars, audioVars, codecVars>>
    /\ WatchActive
    /\ lastOut' = Out("geoError", 0)
    /\ started' = FALSE
    /\ rendered' = [rendered EXCEPT !.started = FALSE]
    /\ UNCHANGED <<testActive, status, homeLocation, currentDistance,
                   aiClient, streamRef, sessions, audioContextRef, sessionRef,
                   frameIntervalRef, sysPc, isIOS, reloading, fixCount,
                   startTestCalls, violationCount, farSeen, alertCount,
                   lastFix>>

\* watchPosition error callback: (err) => console.error(err)
FixError ==
    /\ UNCHANGED <<gyroVars, audioVars, codecVars>>
    /\ WatchActive
    /\ lastOut' = Out("geoError", 0)
    /\ UNCHANGED <<started, testActive, status, homeLocation, currentDistance,
                   rendered, aiClient, streamRef, sessions, audioContextRef,
                   sessionRef, frameIntervalRef, sysPc, isIOS, reloading,
                   fixCount, startTestCalls, violationCount, farSeen,
                   alertCount, lastFix>>

\* the session's onerror: (e) => console.error(e)
OnError(i) ==
    /\ UNCHANGED <<gyroVars, audioVars, codecVars>>
    /\ i \in 1..Len(sessions)
    /\ sessions[i].conn \in {"pending", "open"}
    /\ lastOut' = Out("sessionError", i)
    /\ UNCHANGED <<started, testActive, status, homeLocation, currentDistance,
                   rendered, aiClient, streamRef, sessions, audioContextRef,
                   sessionRef, frameIntervalRef, sysPc, isIOS, reloading,
                   fixCount, startTestCalls, violationCount, farSeen,
                   alertCount, lastFix>>

\* scriptProcessor.onaudioprocess: createBlob, sendRealtimeInput (audio);
\* the processor runs only while its context is running
AudioProcess(i) ==
    /\ UNCHANGED <<gyroVars, audioVars, codecVars>>
    /\ i \in 1..Len(sessions)
    /\ sessions[i].tap
    /\ sessions[i].ctx = "running"
    /\ lastOut' = Out("audio", i)
    /\ UNCHANGED <<lastFix, sessions, started, testActive, status, homeLocation, currentDistance,
                   rendered, aiClient, streamRef, audioContextRef, sessionRef,
                   frameIntervalRef, sysPc, isIOS, reloading, fixCount,
                   startTestCalls, violationCount, farSeen, alertCount>>

\* the setInterval callback: draw, toBlob, sendRealtimeInput (image/jpeg)
FrameTick(i) ==
    /\ UNCHANGED <<gyroVars, audioVars, codecVars>>
    /\ i \in 1..Len(sessions)
    /\ sessions[i].timer
    /\ lastOut' = Out("image", i)
    /\ UNCHANGED <<lastFix, sessions, started, testActive, status, homeLocation, currentDistance,
                   rendered, aiClient, streamRef, audioContextRef, sessionRef,
                   frameIntervalRef, sysPc, isIOS, reloading, fixCount,
                   startTestCalls, violationCount, farSeen, alertCount>>

\* EMERGENCY TERMINATION button (rendered while testActive)
EndTest ==
    /\ UNCHANGED <<gyroVars, audioVars, codecVars>>
    /\ UNCHANGED <<lastFix, lastOut>>
    /\ rendered.started
    /\ rendered.testActive
    /\ sessions' = [i \in 1..Len(sessions) |->
                      [sessions[i] EXCEPT
                         !.timer = IF i = frameIntervalRef THEN FALSE ELSE @,
                         !.ctx = IF i = audioContextRef THEN "closed" ELSE @]]
    /\ testActive' = FALSE
    /\ status' = "SECURE"
    /\ alertCount' = alertCount + 1
    /\ reloading' = TRUE
    /\ rendered' = Snapshot(started, homeLocation, "SECURE", FALSE)
    /\ UNCHANGED <<started, homeLocation, currentDistance, aiClient, streamRef,
                   audioContextRef, sessionRef, frameIntervalRef, sysPc, isIOS,
                   fixCount, startTestCalls, violationCount, farSeen>>

\* the reload takes effect: the page, its state and its refs start afresh
Reload ==
    /\ UNCHANGED <<gyroVars, audioVars, codecVars>>
    /\ reloading
    /\ started' = FALSE
    /\ testActive' = FALSE
    /\ status' = "STANDBY"
    /\ homeLocation' = NoHome
    /\ currentDistance' = 0
    /\ rendered' = Snapshot(FALSE, NoHome, "STANDBY", FALSE)
    /\ streamRef' = "null"
    /\ sessions' = <<>>
    /\ audioContextRef' = 0
    /\ sessionRef' = 0
    /\ frameIntervalRef' = 0
    /\ sysPc' = "idle"
    /\ reloading' = FALSE
    /\ fixCount' = 0
    /\ startTestCalls' = 0
    /\ violationCount' = 0
    /\ farSeen' = FALSE
    /\ alertCount' = 0
    /\ lastFix' = NoHome
    /\ lastOut' = NoOut
    /\ UNCHANGED <<aiClient, isIOS>>

Next ==
    \/ Render
    \/ \E p \in Positions : Fix(p)
    \/ StartSystem
    \/ MediaGranted
    \/ PlayResolved
    \/ PermResolved
    \/ HardwareDenied
    \/ \E i \in 1..MaxFixes : OnOpen(i)
    \/ \E i \in 1..MaxFixes : OnClose(i)
    \/ \E i \in 1..MaxFixes : OnError(i)
    \/ \E i \in 1..MaxFixes : AudioProcess(i)
    \/ \E i \in 1..MaxFixes : FrameTick(i)
    \/ FixError
    \/ EndTest
    \/ Reload

(* ------------------------- gyroscope stability ------------------------- *)
\* an angle the event does not carry (null)
NullAngle == 99999
\* the score is followed down to 100 - MaxDrop2 / 2
MaxDrop2 == 260
Alphas == {NullAngle, 0}
Betas == {NullAngle, 0, 45, -180, 1000}
Gammas == {0, -90, 1000}

GyroInit ==
    /\ gyroData = [alpha |-> 0, beta |-> 0, gamma |-> 0]
    /\ stabilityScore2 = 200

\* setStabilityScore's updater, on the score in halves:
\*   diff = |prev - (100 - movement / 5)|
\*   diff > 5 ? prev - 1 : prev < 100 ? prev + 0.5 : 100
StabilityUpdate(prev2, movement) ==
    IF Abs(5 * prev2 - (1000 - 2 * movement)) > 50
    THEN prev2 - 2
    ELSE IF prev2 < 200 THEN prev2 + 1 ELSE 200

\* the deviceorientation listener
handleOrientation(alpha, beta, gamma) ==
    /\ stabilityScore2 > 200 - MaxDrop2
    /\ alpha # NullAngle /\ beta # NullAngle /\ gamma # NullAngle
    /\ gyroData' = [alpha |-> alpha, beta |-> beta, gamma |-> gamma]
    /\ stabilityScore2' = StabilityUpdate(stabilityScore2, Abs(beta) + Abs(gamma))
    /\ UNCHANGED <<appVars, audioVars, codecVars>>

NextGyro ==
    \E alpha \in Alphas, beta \in Betas, gamma \in Gammas :
        handleOrientation(alpha, beta, gamma)

(* -------------------------- playback scheduling ------------------------ *)
\* inbound messages of one session
MaxMessages == 3
\* the output clock stops advancing here
MaxClock == 4
\* onmessage calls that can be parked at their await at once
MaxParked == 2
\* buffer.duration of a decoded clip, in ticks of 0.5 s
Durations == {1, 2, 4}

AudioInit ==
    /\ outNow = 0
    /\ nextStartTimeRef = 0
    /\ msgCount = 0
    /\ decoding = <<>>
    /\ scheduled = <<>>

ScheduleStart_now(now, next) == now

\* const start = Math.max(now, nextStartTimeRef.current)
ScheduleStart(now, next) == Max(now, next)

NextStartAfter_noDuration(start, duration) == start

\* nextStartTimeRef.current = start + buffer.duration
NextStartAfter(start, duration) == start + duration

\* the continuation that resumes first: promise jobs run in FIFO order
ResumeIndex(q) == 1

\* onmessage with inline audio data: runs up to await decodeAudioData(...)
OnMessageAudio(d) ==
    /\ msgCount < MaxMessages
    /\ Len(decoding) < MaxParked
    /\ msgCount' = msgCount + 1
    /\ decoding' = Append(decoding, [msg |-> msgCount + 1, duration |-> d])
    /\ UNCHANGED <<outNow, nextStartTimeRef, scheduled>>
    /\ UNCHANGED <<appVars, gyroVars, codecVars>>

\* onmessage without audio data: if (audioData) is false
OnMessageOther ==
    /\ msgCount < MaxMessages
    /\ msgCount' = msgCount + 1
    /\ UNCHANGED <<outNow, nextStartTimeRef, decoding, scheduled>>
    /\ UNCHANGED <<appVars, gyroVars, codecVars>>

\* the await resumes: source.start(start), nextStartTimeRef advanced
OnMessageResume ==
    /\ decoding # <<>>
    /\ LET k == ResumeIndex(decoding)
           m == decoding[k]
           start == ScheduleStart(outNow, nextStartTimeRef)
       IN /\ scheduled' = Append(scheduled,
                 [msg |-> m.msg, now |-> outNow, start |-> start,
                  duration |-> m.duration])
          /\ nextStartTimeRef' = NextStartAfter(start, m.duration)
          /\ decoding' = [i \in 1..(Len(decoding) - 1) |->
                            IF i < k THEN decoding[i] ELSE decoding[i + 1]]
    /\ UNCHANGED <<outNow, msgCount>>
    /\ UNCHANGED <<appVars, gyroVars, codecVars>>

\* outCtx.currentTime advances
ClockTick ==
    /\ outNow < MaxClock
    /\ outNow' = outNow + 1
    /\ UNCHANGED <<nextStartTimeRef, msgCount, decoding, scheduled>>
    /\ UNCHANGED <<appVars, gyroVars, codecVars>>

NextAudio ==
    \/ \E d \in Durations : OnMessageAudio(d)
    \/ OnMessageOther
    \/ OnMessageResume
    \/ ClockTick

(* ------------------------------ audio codec ---------------------------- *)
\* the scale between a float sample and its 16-bit integer
PcmScale == 32768
\* a sample s of the Float32Array is the numerator s * SampleDen
SampleDen == 2 * PcmScale
Samples == {-65536, -65535, -32769, -3, -1, 0, 1, 3, 32768, 65535, 65536}
\* samples in a frame
MaxFrame == 2
Frames == UNION {[1..n -> Samples] : n \in 0..MaxFrame}

\* ToInt16 of the conversion into an Int16Array element: truncate toward
\* zero, then wrap modulo 2^16 into -32768..32767
ToInt16(num, den) ==
    LET t == IF num >= 0 THEN num \div den ELSE -((-num) \div den)
        u == t % 65536
    IN IF u >= 32768 THEN u - 65536 ELSE u

\* int16[i] = data[i] * 32768: the product is n / (SampleDen / PcmScale)
ScaleSample(n) == ToInt16(n, SampleDen \div PcmScale)

\* new Uint8Array(int16.buffer): two bytes per element, low byte first
RECURSIVE Int16ToBytes(_)
Int16ToBytes(xs) ==
    IF xs = <<>> THEN <<>>
    ELSE LET u == Head(xs) % 65536
         IN <<u % 256, u \div 256>> \o Int16ToBytes(Tail(xs))

\* new Int16Array(data.buffer)
RECURSIVE BytesToInt16(_)
BytesToInt16(bs) ==
    IF Len(bs) < 2 THEN <<>>
    ELSE LET u == bs[1] + 256 * bs[2]
         IN <<IF u >= 32768 THEN u - 65536 ELSE u>>
              \o BytesToInt16(SubSeq(bs, 3, Len(bs)))

\* btoa: three bytes become four sextets, the tail is padded with '='
RECURSIVE btoa(_)
btoa(bs) ==
    IF Len(bs) = 0 THEN [sextets |-> <<>>, pad |-> 0]
    ELSE IF Len(bs) = 1
    THEN [sextets |-> <<bs[1] \div 4, (bs[1] % 4) * 16>>, pad |-> 2]
    ELSE IF Len(bs) = 2
    THEN [sextets |-> <<bs[1] \div 4, (bs[1] % 4) * 16 + bs[2] \div 16,
                        (bs[2] % 16) * 4>>, pad |-> 1]
    ELSE LET rest == btoa(SubSeq(bs, 4, Len(bs)))
         IN [sextets |-> <<bs[1] \div 4, (bs[1] % 4) * 16 + bs[2] \div 16,
                           (bs[2] % 16) * 4 + bs[3] \div 64, bs[3] % 64>>
                           \o rest.sextets,
             pad |-> rest.pad]

\* atob followed by charCodeAt: four sextets become three bytes
RECURSIVE decode(_)
decode(b64) ==
    LET sx == b64.sextets IN
    IF Len(sx) = 0 THEN <<>>
    ELSE IF Len(sx) = 2
    THEN <<sx[1] * 4 + sx[2] \div 16>>
    ELSE IF Len(sx) = 3
    THEN <<sx[1] * 4 + sx[2] \div 16, (sx[2] % 16) * 16 + sx[3] \div 4>>
    ELSE <<sx[1] * 4 + sx[2] \div 16, (sx[2] % 16) * 16 + sx[3] \div 4,
           (sx[3] % 4) * 64 + sx[4]>>
         \o decode([sextets |-> SubSeq(sx, 5, Len(sx)), pad |-> b64.pad])

\* createBlob: scale, serialize, base64
createBlob(data) ==
    btoa(Int16ToBytes([i \in 1..Len(data) |-> ScaleSample(data[i])]))

\* decodeAudioData: channelData[i] = dataInt16[i * numChannels + channel] / 32768
\* (the result is the sequence of channels, a sample being a numerator over 32768)
decodeAudioData(data, numChannels) ==
    LET dataInt16 == BytesToInt16(data)
        frameCount == Len(dataInt16) \div numChannels
    IN [channel \in 1..numChannels |->
          [i \in 1..frameCount |-> dataInt16[(i - 1) * numChannels + channel]]]

CodecIdle ==
    /\ pcmIn = <<>>
    /\ wire = [sextets |-> <<>>, pad |-> 0]
    /\ pcmOut = <<>>
    /\ codecPc = "done"

CodecInit ==
    /\ pcmIn \in Frames
    /\ wire = [sextets |-> <<>>, pad |-> 0]
    /\ pcmOut = <<>>
    /\ codecPc = "encode"

Encode ==
    /\ codecPc = "encode"
    /\ wire' = createBlob(pcmIn)
    /\ codecPc' = "decode"
    /\ UNCHANGED <<pcmIn, pcmOut>>
    /\ UNCHANGED <<appVars, gyroVars, audioVars>>

Decode ==
    /\ codecPc = "decode"
    /\ pcmOut' = decodeAudioData(decode(wire), 1)[1]
    /\ codecPc' = "done"
    /\ UNCHANGED <<pcmIn, wire>>
    /\ UNCHANGED <<appVars, gyroVars, audioVars>>

NextCodec == Encode \/ Decode

(* ---------------------------- specifications --------------------------- *)
Init == AppInit /\ GyroInit /\ AudioInit /\ CodecIdle

\* the application state machine
Spec == Init /\ [][Next]_vars
\* the stability metric under orientation events
SpecGyro == Init /\ [][NextGyro]_vars
\* the playback scheduler under inbound messages
SpecAudio == Init /\ [][NextAudio]_vars
\* one frame through encode and decode
InitCodec == AppInit /\ GyroInit /\ AudioInit /\ CodecInit
SpecCodec == InitCodec /\ [][NextCodec]_vars

(* ------------------------------- claims -------------------------------- *)
FixStep == fixCount' = fixCount + 1
ModeRank(m) == CHOOSE i \in 1..Len(Modes) : Modes[i] = m
PrevEnd(k) ==
    IF k = 1 THEN 0 ELSE scheduled[k - 1].start + scheduled[k - 1].duration

\* C1: once a test has been triggered, a fix that arrives while the mode is
\* VIOLATION or TESTING neither invokes startTest again nor sets VIOLATION
\* a second time.
C1_NoRetrigger ==
    [][(FixStep /\ status \in {"VIOLATION", "TESTING"})
         => (startTestCalls' = startTestCalls /\ violationCount' = violationCount)]_vars

\* C2: as long as every fix has been at most 15 feet from HomeLocation (a
\* fix at exactly 15 feet included), the mode is neither VIOLATION nor
\* TESTING and the proximity monitor has not invoked startTest.
C2_NearNeverTriggers ==
    ~farSeen => /\ status \notin {"VIOLATION", "TESTING"}
                /\ ~testActive
                /\ startTestCalls = 0
                /\ violationCount = 0

C2_Witness ==
    /\ ~farSeen
    /\ status = "SECURE"
    /\ homeLocation # NoHome
    /\ rendered.homeLocation = homeLocation
    /\ currentDistance = ThresholdFt
    /\ fixCount = MaxFixes

\* C3: within one run, HomeLocation never changes once it is set.
C3_HomeSetOnce ==
    [][(homeLocation # NoHome /\ ~(reloading /\ ~reloading'))
         => homeLocation' = homeLocation]_vars

\* C4: StabilityScore is within [0,100] in every reachable state.
C4_StabilityInRange == stabilityScore2 \in 0..200

\* C5: every clip starts at the later of the output clock and the end of
\* the clip scheduled before it; clips never overlap and are scheduled in
\* the order their messages arrived.
C5_InOrderNoOverlap ==
    \A k \in 1..Len(scheduled) :
        /\ scheduled[k].start = Max(scheduled[k].now, PrevEnd(k))
        /\ k > 1 => /\ scheduled[k].start >=
                         scheduled[k - 1].start + scheduled[k - 1].duration
                    /\ scheduled[k].msg > scheduled[k - 1].msg

C5_Witness ==
    /\ Len(scheduled) = 3
    /\ \E k \in 2..3 : scheduled[k].start > PrevEnd(k)
    /\ \E k \in 2..3 : scheduled[k].now < PrevEnd(k)

\* C6: a clip that arrives while the clock has not passed the end of the
\* previous clip starts exactly at that end; clips of 1.0 s, 0.5 s and 2.0 s
\* arriving at clock 0 start at 0.0 s, 1.0 s and 1.5 s.
C6_Gapless ==
    /\ \A k \in 2..Len(scheduled) :
          scheduled[k].now <= PrevEnd(k) => scheduled[k].start = PrevEnd(k)
    /\ (/\ Len(scheduled) = 3
        /\ \A k \in 1..3 : scheduled[k].now = 0
        /\ <<scheduled[1].duration, scheduled[2].duration,
             scheduled[3].duration>> = <<2, 1, 4>>)
       => <<scheduled[1].start, scheduled[2].start, scheduled[3].start>>
            = <<0, 2, 3>>

C6_Witness ==
    /\ Len(scheduled) = 3
    /\ \A k \in 1..3 : scheduled[k].now = 0
    /\ <<scheduled[1].duration, scheduled[2].duration, scheduled[3].duration>>
         = <<2, 1, 4>>
    /\ nextStartTimeRef = 7

\* C7: no step other than endTest and the reload it requests moves the mode
\* backwards along STANDBY, SECURE, VIOLATION, TESTING.
C7_OneDirectional ==
    [][EndTest \/ Reload \/ ModeRank(status') >= ModeRank(status)]_vars

C7_Witness ==
    /\ status = "TESTING"
    /\ startTestCalls >= 1
    /\ fixCount = MaxFixes
    /\ ~reloading

\* C8: after a failed hardware acquisition an alert has been shown and the
\* mode never becomes SECURE, VIOLATION or TESTING.
C8_DenialIsFatal ==
    sysPc = "failed" => (alertCount >= 1 /\ status = "STANDBY")

\* C9: a frame that went through createBlob and decodeAudioData (one
\* channel) comes back sample by sample within 1/32768.
C9_RoundTrip ==
    codecPc = "done" =>
        /\ Len(pcmOut) = Len(pcmIn)
        /\ \A i \in 1..Len(pcmIn) :
              Abs(pcmIn[i] - pcmOut[i] * (SampleDen \div PcmScale))
                 <= SampleDen \div PcmScale

\* C10: startTest is never invoked while a test is already active.
C10_NoStartWhileActive ==
    [][startTestCalls' > startTestCalls => ~testActive]_vars

SessionClosedStep ==
    \E i \in 1..Len(sessions) :
        /\ i <= Len(sessions')
        /\ sessions[i].conn # "closed"
        /\ sessions'[i].conn = "closed"
SessionErrorStep == lastOut'.kind = "sessionError" /\ lastOut' # lastOut
GeoErrorStep == lastOut'.kind = "geoError" /\ lastOut' # lastOut

\* C11: once endTest has run, no frame-grabber timer is active, also when
\* the session was still pending at termination and opens afterwards.
C11_TerminationStopsGrabber ==
    reloading => \A i \in 1..Len(sessions) : ~sessions[i].timer

\* C12: once endTest has run, the media stream is released and every live
\* session is closed together with its input and its output audio context.
C12_ReleasedByEndTest ==
    reloading =>
        /\ streamRef = "null"
        /\ \A i \in 1..Len(sessions) :
              /\ sessions[i].conn = "closed"
              /\ sessions[i].ctx = "closed"
              /\ sessions[i].outCtx = "closed"

\* C13: without an AI client no session is ever created; a startTest then
\* still sets TESTING and testActive, and raises no alert and logs no error.
C13_NoClientNoSession ==
    [][~aiClient =>
         /\ sessions' = <<>>
         /\ startTestCalls' > startTestCalls =>
               /\ status' = "TESTING"
               /\ testActive'
               /\ alertCount' = alertCount
               /\ lastOut' = lastOut]_vars

C13_Witness ==
    /\ ~aiClient
    /\ streamRef = "held"
    /\ status = "TESTING"
    /\ testActive
    /\ violationCount >= 1
    /\ sessions = <<>>

\* C14: a location fix error only logs: it leaves the application state,
\* the subscribed watch and everything a later fix reads as they were.
C14_FixErrorNonFatal ==
    [][GeoErrorStep =>
         UNCHANGED <<started, testActive, status, homeLocation,
                     currentDistance, rendered, aiClient, streamRef, sessions,
                     audioContextRef, sessionRef, frameIntervalRef, sysPc,
                     reloading, fixCount, startTestCalls, violationCount,
                     alertCount, lastFix>>]_vars

C14_Witness ==
    /\ lastOut.kind = "geoError"
    /\ WatchActive
    /\ homeLocation # NoHome
    /\ status = "SECURE"

\* C15: a session close or error leaves the mode, testActive and the
\* playback schedule unchanged and issues no new connect; the mode leaves
\* TESTING only through endTest (and the reload it requests).
C15_CloseErrorLoggedOnly ==
    [][/\ (SessionClosedStep \/ SessionErrorStep) =>
             /\ status' = status
             /\ testActive' = testActive
             /\ Len(sessions') = Len(sessions)
             /\ sessionRef' = sessionRef
             /\ nextStartTimeRef' = nextStartTimeRef
             /\ scheduled' = scheduled
       /\ (status = "TESTING" /\ status' # "TESTING") => (EndTest \/ Reload)]_vars

C15_Witness ==
    /\ status = "TESTING"
    /\ lastOut.kind = "sessionError"
    /\ \E i \in 1..Len(sessions) : sessions[i].conn = "closed"

\* C16: an orientation sample without movement (beta = gamma = 0) never
\* decreases a score that is within [0,100].
C16_StillNeverDecreases ==
    [][(gyroData'.beta = 0 /\ gyroData'.gamma = 0 /\ stabilityScore2 \in 0..200)
         => stabilityScore2' >= stabilityScore2]_vars

\* C17: no fix is processed before startSystem, and the mode leaves STANDBY
\* only by the first fix, which sets HomeLocation to that fix and the mode
\* to SECURE, leaves the distance at 0 and starts no test.
C17_LeavesStandbyByFirstFix ==
    [][/\ FixStep => started
       /\ (status = "STANDBY" /\ status' # "STANDBY") =>
             /\ FixStep
             /\ homeLocation = NoHome
             /\ homeLocation' = lastFix'
             /\ status' = "SECURE"
             /\ currentDistance' = 0
             /\ startTestCalls' = 0
             /\ ~testActive']_vars

C17_Witness ==
    /\ status = "SECURE"
    /\ fixCount = 1
    /\ homeLocation = lastFix
    /\ homeLocation # NoHome
    /\ currentDistance = 0

\* C18: a session's audio tap and frame timer exist, and its audio chunks
\* and image frames are sent, only after its open callback has fired.
C18_ProducersAfterOpen ==
    /\ \A i \in 1..Len(sessions) :
          (sessions[i].tap \/ sessions[i].timer) => sessions[i].conn # "pending"
    /\ lastOut.kind \in {"audio", "image"} =>
          /\ lastOut.session \in 1..Len(sessions)
          /\ sessions[lastOut.session].conn # "pending"

C18_Witness ==
    /\ lastOut.kind = "image"
    /\ sessions[lastOut.session].conn = "open"
    /\ sessions[lastOut.session].tap
    /\ \E j \in 1..Len(sessions) : sessions[j].conn = "pending"

\* C19: between handlers testActive is true exactly when the mode is TESTING.
C19_ActiveIffTesting == testActive <=> status = "TESTING"

C19_Witness ==
    /\ reloading
    /\ ~testActive
    /\ status = "SECURE"
    /\ startTestCalls >= 1

\* C20: between handlers the mode is never VIOLATION, and the render that
\* shows the SUBMIT TO TEST prompt never happens.
C20_ViolationNotResting ==
    /\ status # "VIOLATION"
    /\ rendered.status # "VIOLATION"
    /\ ~SubmitVisible

C20_Witness ==
    /\ violationCount >= 1
    /\ status = "TESTING"
    /\ rendered.status = "TESTING"

\* C21: with an AI client, whenever the mode is TESTING a live-session
\* connect has been issued, and startTest never runs before the media
\* stream is held.
C21_TestingHasConnect ==
    (aiClient /\ status = "TESTING") =>
        (streamRef = "held" /\ Len(sessions) >= 1)

TypeOK ==
    /\ started \in BOOLEAN /\ testActive \in BOOLEAN
    /\ status \in {"STANDBY", "SECURE", "VIOLATION", "TESTING"}
    /\ homeLocation \in Positions \cup {NoHome}
    /\ currentDistance \in Nat
    /\ sysPc \in {"idle", "awaitMedia", "awaitPlay", "awaitPerm", "done", "failed"}
    /\ streamRef \in {"null", "held"}
    /\ audioContextRef \in 0..Len(sessions)
    /\ frameIntervalRef \in 0..Len(sessions)
====
